---- MODULE Spec2Model ----
(***************************************************************************)
(* A model of wordmake.py: the GenerateWorker and FixWorker pipelines and  *)
(* the part of WordToolGUI that starts them and handles their signals.     *)
(*                                                                         *)
(* Strings are sequences of one-character strings, so that split, join,    *)
(* replace, strip and the regular-expression searches of the source are    *)
(* computed character by character.  Every random.choice / randint /       *)
(* shuffle of the source is a nondeterministic choice over all of its      *)
(* outcomes.                                                               *)
(***************************************************************************)
EXTENDS Integers, Sequences, FiniteSets, TLC

(***************************************************************************)
(* Bounds of the model.                                                    *)
(***************************************************************************)
\* largest count of a run whose candidates are built without random draws
MaxCount == 5
\* largest count of a run whose candidates involve random draws
MaxRandCount == 2
\* largest num_len / sym_count of a configuration
MaxBlock == 1
\* largest num_max of a configuration with num_type = "random"
MaxNumMax == 10

(***************************************************************************)
(* Characters and character classes.                                       *)
(***************************************************************************)
\* wordmake.py:11  SYMBOLS = "!@#$%^&*()-_+="
SYMBOLS == <<"!", "@", "#", "$", "%", "^", "&", "*", "(", ")", "-", "_", "+", "=">>

\* wordmake.py:12  AMBIGUOUS = "0O1lI"
AMBIGUOUS == <<"0", "O", "1", "l", "I">>

\* the string "0123456789" of rand_num
DIGITS == <<"0", "1", "2", "3", "4", "5", "6", "7", "8", "9">>

\* the string "abcdefghijklmnopqrstuvwxyz" of ensure_policy
LOWERCASE == <<"a", "b", "c", "d", "e", "f", "g", "h", "i", "j", "k", "l", "m",
               "n", "o", "p", "q", "r", "s", "t", "u", "v", "w", "x", "y", "z">>

\* the string "ABCDEFGHIJKLMNOPQRSTUVWXYZ" of ensure_policy
UPPERCASE == <<"A", "B", "C", "D", "E", "F", "G", "H", "I", "J", "K", "L", "M",
               "N", "O", "P", "Q", "R", "S", "T", "U", "V", "W", "X", "Y", "Z">>

Range(s) == {s[k] : k \in 1..Len(s)}

\* the regular expression \d (on ASCII text)
IsDigit(c) == c \in Range(DIGITS)

\* the regular expression [A-Z]
IsUpper(c) == c \in Range(UPPERCASE)

\* the regular expression [a-z]
IsLower(c) == c \in Range(LOWERCASE)

\* the regular expression [!@#$%^&*()_+=-]
IsPolicySymbol(c) == c \in {"!", "@", "#", "$", "%", "^", "&", "*", "(", ")", "_", "+", "=", "-"}

\* the regular expression [^\w]: neither a letter, a digit nor "_"
IsNonWord(c) == ~(IsDigit(c) \/ IsUpper(c) \/ IsLower(c) \/ c = "_")

\* str.strip() removes these from both ends
IsSpace(c) == c \in {" ", "\t", "\n", "\r"}

\* membership of one character in a character class of the regular expressions
InClass(class, c) ==
    CASE class = "digit" -> IsDigit(c)
      [] class = "upper" -> IsUpper(c)
      [] class = "lower" -> IsLower(c)
      [] class = "symbol" -> IsPolicySymbol(c)
      [] class = "nonword" -> IsNonWord(c)

\* re.search(class, s)
Search(class, s) == \E k \in 1..Len(s) : InClass(class, s[k])

\* c.upper() and c.lower() of one character
UpperChar(c) == IF IsLower(c) THEN UPPERCASE[CHOOSE k \in 1..26 : LOWERCASE[k] = c] ELSE c

LowerChar(c) == IF IsUpper(c) THEN LOWERCASE[CHOOSE k \in 1..26 : UPPERCASE[k] = c] ELSE c

(***************************************************************************)
(* String functions of the Python library, as the source uses them.        *)
(***************************************************************************)
\* s.strip()
RECURSIVE LStrip(_)
LStrip(s) == IF s # <<>> /\ IsSpace(Head(s)) THEN LStrip(Tail(s)) ELSE s

RECURSIVE RStrip(_)
RStrip(s) == IF s # <<>> /\ IsSpace(s[Len(s)]) THEN RStrip(SubSeq(s, 1, Len(s) - 1)) ELSE s

Strip(s) == RStrip(LStrip(s))

\* s.replace(c, "") for a one-character c
Replace(s, c) == SelectSeq(s, LAMBDA x : x # c)

\* s.split(d) for a one-character d: the pieces between the occurrences of d
RECURSIVE SplitFrom(_, _, _, _)
SplitFrom(s, d, k, cur) ==
    IF k > Len(s) THEN <<cur>>
    ELSE IF s[k] = d THEN <<cur>> \o SplitFrom(s, d, k + 1, <<>>)
    ELSE SplitFrom(s, d, k + 1, Append(cur, s[k]))

Split(s, d) == SplitFrom(s, d, 1, <<>>)

\* sep.join(parts)
RECURSIVE Join(_, _)
Join(sep, parts) ==
    IF parts = <<>> THEN <<>>
    ELSE IF Len(parts) = 1 THEN parts[1]
    ELSE parts[1] \o sep \o Join(sep, Tail(parts))

\* str(n) for n >= 0
RECURSIVE StrInt(_)
StrInt(n) == IF n < 10 THEN <<DIGITS[n + 1]>> ELSE Append(StrInt(n \div 10), DIGITS[(n % 10) + 1])

\* word.lower(), word.upper()
Lower(w) == [k \in 1..Len(w) |-> LowerChar(w[k])]

Upper(w) == [k \in 1..Len(w) |-> UpperChar(w[k])]

\* word.title(): a letter is upper-cased when no letter precedes it, lower-cased otherwise
IsLetter(c) == IsUpper(c) \/ IsLower(c)

Title(w) ==
    [k \in 1..Len(w) |->
        IF k = 1 \/ ~IsLetter(w[k - 1]) THEN UpperChar(w[k]) ELSE LowerChar(w[k])]

\* all strings of n characters drawn from the string alphabet
Strings(alphabet, n) == [1..n -> Range(alphabet)]

\* all orders random.shuffle can leave a list in
Shuffles(parts) ==
    {[k \in 1..Len(parts) |-> parts[p[k]]] :
        p \in {q \in [1..Len(parts) -> 1..Len(parts)] :
                  \A a, b \in 1..Len(parts) : a # b => q[a] # q[b]}}

\* Python truthiness of a string and of an integer
TruthyStr(s) == s # ""

TruthyInt(n) == n # 0

\* needle in haystack, the substring test of Python
Contains(haystack, needle) ==
    \E k \in 0..(Len(haystack) - Len(needle)) :
        SubSeq(haystack, k + 1, k + Len(needle)) = needle

\* list(dict.fromkeys(words)): the first occurrence of each word, in order
RECURSIVE FromKeys(_, _)
FromKeys(ws, acc) ==
    IF ws = <<>> THEN acc
    ELSE IF Head(ws) \in Range(acc) THEN FromKeys(Tail(ws), acc)
    ELSE FromKeys(Tail(ws), Append(acc, Head(ws)))

\* [f(x) for x in xs if x]
RECURSIVE StripNonEmpty(_)
StripNonEmpty(lines) ==
    IF lines = <<>> THEN <<>>
    ELSE IF Strip(Head(lines)) # <<>> THEN <<Strip(Head(lines))>> \o StripNonEmpty(Tail(lines))
    ELSE StripNonEmpty(Tail(lines))

(***************************************************************************)
(* The files of the machine: word lists and password lists, line by line   *)
(* (each line without its newline).  A path that is not listed is not a    *)
(* file.                                                                   *)
(***************************************************************************)
FilePaths == {"test.txt", "words.txt", "blank.txt", "mixed.txt", "abc.txt", "list.txt"}

\* the files of FilePaths exist when the program starts
IsFile(path) == path \in FilePaths

\* the lines of open(path)
FileLines(path) ==
    CASE path = "test.txt"  -> << <<"t", "e", "s", "t">> >>
      [] path = "words.txt" -> << <<"a", "b">>, <<" ", "c", "d", " ">>, <<>>, <<"a", "b">> >>
      [] path = "blank.txt" -> << <<>>, <<" ", "\t">> >>
      [] path = "mixed.txt" -> << <<"T", "o", "l">>, <<"a", "1">> >>
      [] path = "abc.txt"   -> << <<"a", "b", "c">> >>
      [] path = "list.txt"  -> << <<"p", "0", "a", "1", "s", "s", "I">>, <<"A", "b", "2", "!">>,
                                  <<" ">>, <<"A", "b", "2", "!">> >>
      [] OTHER -> <<>>

(***************************************************************************)
(* GenerateWorker                                                          *)
(***************************************************************************)
\* GenerateWorker.load_words, gone being the files deleted by now
RECURSIVE load_words(_, _)
load_words(wordlists, gone) ==
    IF wordlists = <<>> THEN <<>>
    ELSE (IF IsFile(Head(wordlists)) /\ Head(wordlists) \notin gone
          THEN StripNonEmpty(FileLines(Head(wordlists))) ELSE <<>>)
         \o load_words(Tail(wordlists), gone)

\* GenerateWorker.apply_filters; include_regex and exclude_regex are drawn from
\* the regular expressions that are literal strings, for which re.search is the
\* substring test
apply_filters(cfg, word) ==
    /\ ~(TruthyInt(cfg.min_word_len) /\ Len(word) < cfg.min_word_len)
    /\ ~(TruthyInt(cfg.max_word_len) /\ Len(word) > cfg.max_word_len)
    /\ ~(cfg.remove_words_with_numbers /\ Search("digit", word))
    /\ ~(cfg.remove_words_with_symbols /\ Search("nonword", word))
    /\ ~(cfg.include_regex # <<>> /\ ~Contains(word, cfg.include_regex))
    /\ ~(cfg.exclude_regex # <<>> /\ Contains(word, cfg.exclude_regex))

\* GenerateWorker.apply_case: the set of strings it can return
apply_case(cfg, word) ==
    CASE cfg.case_mode = "lower" -> {Lower(word)}
      [] cfg.case_mode = "upper" -> {Upper(word)}
      [] cfg.case_mode = "title" -> {Title(word)}
      [] cfg.case_mode = "random" ->
            {[k \in 1..Len(word) |-> IF k \in up THEN UpperChar(word[k]) ELSE LowerChar(word[k])] :
                up \in SUBSET (1..Len(word))}
      [] OTHER -> {word}

\* wordmake.py:14  LEET.get(c, c)
LEET(c) ==
    CASE c = "a" -> "@"
      [] c = "o" -> "0"
      [] c = "i" -> "1"
      [] c = "e" -> "3"
      [] c = "s" -> "$"
      [] c = "t" -> "7"
      [] c = "l" -> "1"
      [] OTHER -> c

\* GenerateWorker.leet: LEET.get(c.lower(), c)
leet(word) ==
    [k \in 1..Len(word) |->
        IF LEET(LowerChar(word[k])) # LowerChar(word[k]) THEN LEET(LowerChar(word[k])) ELSE word[k]]

\* GenerateWorker.rand_num: the set of strings it can return
rand_num(cfg) ==
    IF cfg.num_type = "fixed" THEN Strings(DIGITS, cfg.num_len)
    ELSE {StrInt(n) : n \in 0..cfg.num_max}

\* GenerateWorker.rand_sym: the set of strings it can return
rand_sym(cfg) == Strings(SYMBOLS, cfg.sym_count)

\* GenerateWorker.sep_char
sep_char(cfg) ==
    CASE cfg.separator = "dash" -> <<"-">>
      [] cfg.separator = "underscore" -> <<"_">>
      [] cfg.separator = "dot" -> <<".">>
      [] OTHER -> <<>>

\* pick_word giving up on the filter: it returns whatever word it drew
pick_word_any(cfg, pool) == {pool[k] : k \in 1..Len(pool)}

\* GenerateWorker.pick_word: the words the draw-until-match loop can return;
\* the empty set when no word of the pool passes the filter (the loop then
\* never ends)
pick_word(cfg, pool) == {pool[k] : k \in {j \in 1..Len(pool) : apply_filters(cfg, pool[j])}}

\* the strings one token of the pattern can contribute
PatternToken(cfg, pool, p) ==
    IF p = <<"W">> THEN pick_word(cfg, pool)
    ELSE IF p = <<"D">> THEN rand_num(cfg)
    ELSE IF p = <<"S">> THEN rand_sym(cfg)
    ELSE {p}

\* the loop of build_from_pattern over parts
RECURSIVE PatternParts(_, _, _)
PatternParts(cfg, pool, parts) ==
    IF parts = <<>> THEN {<<>>}
    ELSE {a \o b : a \in PatternToken(cfg, pool, Head(parts)),
                   b \in PatternParts(cfg, pool, Tail(parts))}

\* build_from_pattern with the dashes of the pattern kept between the tokens
RECURSIVE PatternPartsDashed(_, _, _)
PatternPartsDashed(cfg, pool, parts) ==
    IF parts = <<>> THEN {<<>>}
    ELSE IF Len(parts) = 1 THEN PatternToken(cfg, pool, parts[1])
    ELSE {a \o <<"-">> \o b : a \in PatternToken(cfg, pool, Head(parts)),
                              b \in PatternPartsDashed(cfg, pool, Tail(parts))}

build_from_pattern_dashed(cfg, pool) == PatternPartsDashed(cfg, pool, Split(cfg.pattern, "-"))

\* GenerateWorker.build_from_pattern: the set of strings it can return
build_from_pattern(cfg, pool) == PatternParts(cfg, pool, Split(cfg.pattern, "-"))

\* GenerateWorker.remove_ambiguous and FixWorker.remove_ambiguous
RECURSIVE RemoveEach(_, _)
RemoveEach(pwd, chars) ==
    IF chars = <<>> THEN pwd ELSE RemoveEach(Replace(pwd, Head(chars)), Tail(chars))

\* remove_ambiguous with a loop that stops one character early
remove_ambiguous_short(pwd) == RemoveEach(pwd, SubSeq(AMBIGUOUS, 1, Len(AMBIGUOUS) - 1))

remove_ambiguous(pwd) == RemoveEach(pwd, AMBIGUOUS)

\* run, lines 166-169: what apply_case and leet can make of a drawn word
CaseAndLeet(cfg, w) ==
    {IF cfg.leet_mode THEN leet(c) ELSE c :
        c \in (IF cfg.case_mode # "none" THEN apply_case(cfg, w) ELSE {w})}

\* run, lines 159-170: the lists parts can hold after the drawing loop, from its
\* k-th pass on, with the words used and the parts appended so far
RECURSIVE DrawLoop(_, _, _, _, _)
DrawLoop(cfg, pool, k, used, parts) ==
    IF k > cfg.words_per_password THEN {parts}
    ELSE UNION {
            IF cfg.unique_words /\ w \in used
            THEN DrawLoop(cfg, pool, k + 1, used, parts)
            ELSE UNION {DrawLoop(cfg, pool, k + 1, used \cup {w}, Append(parts, w2)) :
                            w2 \in CaseAndLeet(cfg, w)} :
            w \in pick_word(cfg, pool)}

\* run, lines 180-188: the strings newpwd can hold after the loop over parts
RECURSIVE InsertBetween(_, _)
InsertBetween(cfg, parts) ==
    IF parts = <<>> THEN {<<>>}
    ELSE IF Len(parts) = 1 THEN {parts[1]}
    ELSE {parts[1] \o g \o rest :
            g \in (IF cfg.insert_between = "symbol" THEN {<<c>> : c \in Range(SYMBOLS)}
                   ELSE IF cfg.insert_between = "number" THEN rand_num(cfg)
                   ELSE {<<>>}),
            rest \in InsertBetween(cfg, Tail(parts))}

\* run, lines 172-188: the strings pwd can hold for the parts the drawing loop
\* has left
Assemble(cfg, drawn) ==
    UNION {
        IF TruthyStr(cfg.insert_between) THEN InsertBetween(cfg, parts)
        ELSE {Join(sep_char(cfg), parts)} :
        parts \in (IF cfg.shuffle_words THEN Shuffles(drawn) ELSE {drawn})}

\* run, lines 159-188: the strings pwd can hold after word composition
Compose(cfg, pool) == UNION {Assemble(cfg, drawn) : drawn \in DrawLoop(cfg, pool, 1, {}, <<>>)}

\* run, lines 190-191: the symbol block
SymbolBlock(cfg, pwd) == IF cfg.use_symbols THEN {pwd \o s : s \in rand_sym(cfg)} ELSE {pwd}

\* the numeric block appended only under numbers_at_end
NumericBlockAtEnd(cfg, pwd) ==
    IF cfg.use_numbers /\ cfg.numbers_at_end THEN {pwd \o n : n \in rand_num(cfg)} ELSE {pwd}

\* run, lines 193-196: the numeric block, under either value of numbers_at_end
NumericBlock(cfg, pwd) ==
    UNION {
        IF cfg.use_numbers /\ cfg.numbers_at_end THEN {p1 \o n : n \in rand_num(cfg)} ELSE {p1} :
        p1 \in (IF cfg.use_numbers /\ ~cfg.numbers_at_end
                THEN {pwd \o n : n \in rand_num(cfg)} ELSE {pwd})}

\* run, line 198
Wrap(cfg, pwd) == cfg.prefix \o pwd \o cfg.suffix

\* run, lines 200-201
ExcludeAmbiguous(cfg, pwd) == IF cfg.exclude_ambiguous THEN remove_ambiguous(pwd) ELSE pwd

\* run, lines 203-207: the smart-mode top-up
SmartTopUp(cfg, pwd) ==
    IF ~cfg.smart_mode THEN {pwd}
    ELSE UNION {
            IF ~Search("symbol", p1) THEN {p1 \o s : s \in rand_sym(cfg)} ELSE {p1} :
            p1 \in (IF ~Search("digit", pwd) THEN {pwd \o n : n \in rand_num(cfg)} ELSE {pwd})}

\* run, lines 190-201: the strings pwd can hold after the blocks, the wrap and
\* the removal of ambiguous characters
Augment(cfg, pwd) ==
    {ExcludeAmbiguous(cfg, Wrap(cfg, p2)) :
        p2 \in UNION {NumericBlock(cfg, p1) : p1 \in SymbolBlock(cfg, pwd)}}

\* run, lines 155-188: the strings pwd can hold before the augmentation
Build(cfg, pool) == IF cfg.pattern_mode THEN build_from_pattern(cfg, pool) ELSE Compose(cfg, pool)

\* run, lines 155-201: the strings pwd can hold when the pass reaches line 203
Candidates(cfg, pool) == UNION {Augment(cfg, p) : p \in Build(cfg, pool)}

\* whether one pass of the loop calls pick_word
DrawsWord(cfg) ==
    IF cfg.pattern_mode THEN <<"W">> \in Range(Split(cfg.pattern, "-"))
    ELSE cfg.words_per_password >= 1

\* run, line 218: int((i+1)/count*100).  The float product is the exact
\* quotient rounded down for every count of the spin box (1..99) but 29/50,
\* where it is 57.99999999999999
Percent(done, count) ==
    IF done = 29 /\ count = 50 THEN 57 ELSE (done * 100) \div count

(***************************************************************************)
(* The output writer of both run methods: the text written to the file.    *)
(***************************************************************************)
\* a string with every character of the set esc preceded by what pre gives
RECURSIVE Escape(_, _, _)
Escape(p, esc, pre) ==
    IF p = <<>> THEN <<>>
    ELSE (IF Head(p) \in esc THEN <<pre[Head(p)], Head(p)>> ELSE <<Head(p)>>)
         \o Escape(Tail(p), esc, pre)

\* csv.writer(f).writerow([p]) in the default dialect: the field is quoted when
\* it is empty or holds a comma, a quote or a line break; rows end with \r\n
CsvRow(p) ==
    (IF p = <<>> \/ \E k \in 1..Len(p) : p[k] \in {",", "\"", "\r", "\n"}
     THEN <<"\"">> \o Escape(p, {"\""}, [c \in {"\""} |-> "\""]) \o <<"\"">>
     ELSE p) \o <<"\r", "\n">>

\* the JSON text of one string (ASCII, no control characters)
JsonString(p) ==
    <<"\"">> \o Escape(p, {"\"", "\\"}, [c \in {"\"", "\\"} |-> "\\"]) \o <<"\"">>

\* json.dump(results, f, indent=2)
JsonDump(rs) ==
    IF rs = <<>> THEN <<"[", "]">>
    ELSE <<"[", "\n", " ", " ">>
         \o Join(<<",", "\n", " ", " ">>, [k \in 1..Len(rs) |-> JsonString(rs[k])])
         \o <<"\n", "]">>

\* the rows written by the loop over the results
RECURSIVE CsvRows(_)
CsvRows(rs) == IF rs = <<>> THEN <<>> ELSE CsvRow(Head(rs)) \o CsvRows(Tail(rs))

\* run, lines 224-235 and 308-319: the text the file holds after the write
WriteOutput(fmt, rs) ==
    IF fmt = "csv" THEN CsvRow(<<"p", "a", "s", "s", "w", "o", "r", "d">>) \o CsvRows(rs)
    ELSE IF fmt = "json" THEN JsonDump(rs)
    ELSE Join(<<"\n">>, rs)

(***************************************************************************)
(* entropy(password) < threshold for an integer threshold, in exact        *)
(* arithmetic: with n = len(password) and f_c the count of character c,    *)
(* entropy = n*log2(n) - SUM f_c*log2(f_c), so entropy < t is              *)
(* n^n < 2^t * PRODUCT f_c^f_c.                                            *)
(***************************************************************************)
RECURSIVE Pow(_, _)
Pow(b, e) == IF e = 0 THEN 1 ELSE b * Pow(b, e - 1)

Count(s, c) == Len(SelectSeq(s, LAMBDA x : x = c))

RECURSIVE FreqProduct(_, _)
FreqProduct(s, distinct) ==
    IF distinct = <<>> THEN 1
    ELSE Pow(Count(s, Head(distinct)), Count(s, Head(distinct))) * FreqProduct(s, Tail(distinct))

EntropyBelow(password, threshold) ==
    IF password = <<>> THEN 0 < threshold
    ELSE Pow(Len(password), Len(password))
            < Pow(2, threshold) * FreqProduct(password, FromKeys(password, <<>>))

(***************************************************************************)
(* FixWorker                                                               *)
(***************************************************************************)
\* ensure_policy without the test for a digit
ensure_policy_no_number(cfg, pwd) ==
    UNION { UNION {
        IF cfg.policy_symbol /\ ~Search("symbol", p3)
        THEN {Append(p3, c) : c \in Range(SYMBOLS)} ELSE {p3} :
        p3 \in (IF cfg.policy_lower /\ ~Search("lower", p1)
                THEN {Append(p1, c) : c \in Range(LOWERCASE)} ELSE {p1})} :
        p1 \in (IF cfg.policy_upper /\ ~Search("upper", pwd)
                THEN {Append(pwd, c) : c \in Range(UPPERCASE)} ELSE {pwd})}

\* FixWorker.ensure_policy: the set of strings it can return
ensure_policy(cfg, pwd) ==
    UNION { UNION { UNION {
        IF cfg.policy_symbol /\ ~Search("symbol", p3)
        THEN {Append(p3, c) : c \in Range(SYMBOLS)} ELSE {p3} :
        p3 \in (IF cfg.policy_number /\ ~Search("digit", p2)
                THEN {p2 \o StrInt(n) : n \in 0..9} ELSE {p2})} :
        p2 \in (IF cfg.policy_lower /\ ~Search("lower", p1)
                THEN {Append(p1, c) : c \in Range(LOWERCASE)} ELSE {p1})} :
        p1 \in (IF cfg.policy_upper /\ ~Search("upper", pwd)
                THEN {Append(pwd, c) : c \in Range(UPPERCASE)} ELSE {pwd})}

\* run, lines 278-279
FixAmbiguous(cfg, pwd) == IF cfg.remove_ambiguous THEN remove_ambiguous(pwd) ELSE pwd

\* run, lines 281-287: the line is dropped by the blacklist or the whitelist
FixListed(cfg, pwd) ==
    \/ cfg.blacklist # <<>> /\ \E k \in 1..Len(cfg.blacklist) : Contains(pwd, cfg.blacklist[k])
    \/ cfg.whitelist # <<>> /\ ~\E k \in 1..Len(cfg.whitelist) : Contains(pwd, cfg.whitelist[k])

\* run, lines 289-290: the strings pwd can hold after policy enforcement
FixPolicy(cfg, pwd) == IF cfg.smart_mode THEN ensure_policy(cfg, pwd) ELSE {pwd}

\* run, lines 292-299: the line is dropped by the length, duplicate or entropy test
FixRejected(cfg, pwd, seenset) ==
    \/ TruthyInt(cfg.min_len) /\ Len(pwd) < cfg.min_len
    \/ cfg.remove_duplicates /\ pwd \in seenset
    \/ TruthyInt(cfg.max_entropy) /\ EntropyBelow(pwd, cfg.max_entropy)

(***************************************************************************)
(* State.                                                                  *)
(***************************************************************************)
VARIABLES
    \* GenerateWorker: self.config, the position of run, its locals and signals
    gcfg, gpc, words_pool, gi, gpwd, results, seen, gevents, gwrites,
    \* GenerateWorker.run, lines 159-170: parts, used, the passes of the drawing
    \* loop made so far and the word pick_word returned in the last of them
    gparts, gused, gdraws, gw,
    \* FixWorker: self.config, the position of run, its locals and signals
    fcfg, fpc, passwords, fidx, fixed, fseen, fevents, fwrites,
    \* WordToolGUI: the two buttons and progress bars, the signals of each
    \* worker handled so far, the open message boxes, self.worker, and the
    \* runs started and not yet handled as finished
    gen_btn, fix_btn, gen_progress, fix_progress, ghandled, fhandled,
    dialogs, worker, gen_runs, fix_runs,
    \* the files deleted since the program started
    removed

drawvars == <<gparts, gused, gdraws, gw>>

genvars == <<gcfg, gpc, words_pool, gi, gpwd, results, seen, gevents, gwrites, drawvars>>

fixvars == <<fcfg, fpc, passwords, fidx, fixed, fseen, fevents, fwrites>>

guivars == <<gen_btn, fix_btn, gen_progress, fix_progress, ghandled, fhandled,
             dialogs, worker, gen_runs, fix_runs>>

vars == <<genvars, fixvars, guivars, removed>>

\* self.progress.emit(n) and self.finished.emit(rs, out)
ProgressEvent(n) == [type |-> "progress", pct |-> n, res |-> <<>>, out |-> ""]

FinishedEvent(rs, out) == [type |-> "finished", pct |-> 0, res |-> rs, out |-> out]

(***************************************************************************)
(* The configurations generate() can build.  Every family fixes the        *)
(* options it does not name to those of BaseConfig.                        *)
(***************************************************************************)
BaseConfig ==
    [wordlists |-> <<"test.txt">>, words_per_password |-> 2, case_mode |-> "none",
     unique_words |-> FALSE, remove_words_with_numbers |-> FALSE,
     remove_words_with_symbols |-> FALSE, include_regex |-> <<>>, exclude_regex |-> <<>>,
     min_word_len |-> 0, max_word_len |-> 0, remove_source_duplicates |-> FALSE,
     pattern_mode |-> FALSE, pattern |-> <<"W", "-", "W", "-", "D", "-", "S">>,
     leet_mode |-> FALSE, shuffle_words |-> FALSE, insert_between |-> "none",
     use_numbers |-> FALSE, num_type |-> "fixed", num_len |-> 1, num_max |-> 9,
     numbers_at_end |-> FALSE, use_symbols |-> FALSE, sym_count |-> 1,
     separator |-> "none", prefix |-> <<>>, suffix |-> <<>>, avoid_duplicates |-> FALSE,
     min_len |-> 0, exclude_ambiguous |-> FALSE, smart_mode |-> FALSE, count |-> 1,
     output |-> "generated_wordlist.txt", output_format |-> "txt"]

CaseModes == {"lower", "upper", "title", "random", "none"}

Separators == {"none", "dash", "underscore", "dot"}

InsertModes == {"none", "symbol", "number"}

NumTypes == {"fixed", "random"}

Formats == {"txt", "csv", "json"}

\* patterns without a random token, over a one-word pool or no pool at all
PatternConfigs ==
    {[BaseConfig EXCEPT !.pattern_mode = TRUE, !.pattern = pt, !.wordlists = wl, !.count = n,
                        !.avoid_duplicates = ad, !.min_len = ml, !.output_format = fmt] :
        pt \in {<<"W">>, <<"W", "-", "W">>, <<"W", "-", "x", "-", "W">>},
        wl \in {<<"test.txt">>, <<"missing.txt">>, <<"blank.txt">>, <<"missing.txt", "test.txt">>},
        n \in 0..MaxCount, ad \in BOOLEAN, ml \in {0, 9}, fmt \in Formats}

\* the word filter over pools of several words
FilterConfigs ==
    {[BaseConfig EXCEPT !.pattern_mode = TRUE, !.pattern = <<"W">>, !.wordlists = wl,
                        !.count = n, !.min_word_len = lo, !.max_word_len = hi,
                        !.remove_words_with_numbers = rn, !.remove_source_duplicates = rd,
                        !.exclude_regex = ex, !.avoid_duplicates = ad] :
        wl \in {<<"test.txt">>, <<"words.txt">>, <<"mixed.txt">>},
        n \in 1..MaxRandCount, lo \in {0, 3, 5}, hi \in {0, 2}, rn \in BOOLEAN,
        rd \in BOOLEAN, ex \in {<<>>, <<"b">>}, ad \in BOOLEAN}

\* word composition: separator and insertion
ComposeConfigs ==
    {[BaseConfig EXCEPT !.wordlists = wl, !.words_per_password = wpp, !.separator = sp,
                        !.insert_between = ib, !.unique_words = uw, !.shuffle_words = sh,
                        !.num_type = nt, !.num_max = MaxNumMax] :
        wl \in {<<"test.txt">>, <<"words.txt">>}, wpp \in 1..2, sp \in Separators,
        ib \in InsertModes, uw \in BOOLEAN, sh \in BOOLEAN, nt \in NumTypes}

\* word composition: casing and leetspeak
CaseConfigs ==
    {[BaseConfig EXCEPT !.wordlists = <<"mixed.txt">>, !.words_per_password = wpp,
                        !.case_mode = cm, !.leet_mode = lt, !.separator = "dot"] :
        wpp \in 1..2, cm \in CaseModes, lt \in BOOLEAN}

\* the shared augmentation
AugmentConfigs ==
    {[BaseConfig EXCEPT !.pattern_mode = pm, !.pattern = <<"W">>, !.use_symbols = us,
                        !.use_numbers = un, !.numbers_at_end = ne, !.num_type = nt,
                        !.num_max = MaxNumMax, !.prefix = pre, !.suffix = suf,
                        !.exclude_ambiguous = ea, !.smart_mode = sm] :
        pm \in BOOLEAN, us \in BOOLEAN, un \in BOOLEAN, ne \in BOOLEAN, nt \in NumTypes,
        pre \in {<<>>, <<"I">>}, suf \in {<<>>, <<"0", "k">>}, ea \in BOOLEAN,
        sm \in BOOLEAN}

\* the smart-mode top-up
SmartConfigs ==
    {[BaseConfig EXCEPT !.pattern_mode = TRUE, !.pattern = <<"W">>, !.smart_mode = TRUE,
                        !.num_type = nt, !.num_len = nl, !.num_max = nm, !.sym_count = sc,
                        !.prefix = pre, !.exclude_ambiguous = ea] :
        nt \in NumTypes, nl \in 0..MaxBlock, nm \in {0, MaxNumMax}, sc \in 0..MaxBlock,
        pre \in {<<>>, <<"7">>, <<"#">>, <<"1", "+">>}, ea \in BOOLEAN}

\* filters that no word of the pool passes, in both modes, with and without
\* a draw of a word
UnsatisfiableConfigs ==
    {[BaseConfig EXCEPT !.pattern_mode = pm, !.pattern = pt, !.wordlists = wl,
                        !.words_per_password = wpp, !.count = n, !.min_word_len = lo,
                        !.include_regex = inc] :
        pm \in BOOLEAN, pt \in {<<"x">>, <<"D", "-", "W">>, <<"W", "-", "S">>},
        wl \in {<<"test.txt">>, <<"words.txt">>, <<"blank.txt">>}, wpp \in 1..2,
        n \in 0..1, lo \in {0, 5}, inc \in {<<>>, <<"z">>}}

\* word composition: the drawing loop over pools of several words
DrawConfigs ==
    {[BaseConfig EXCEPT !.wordlists = wl, !.words_per_password = wpp, !.unique_words = uw,
                        !.case_mode = cm, !.separator = "dash"] :
        wl \in {<<"words.txt">>, <<"mixed.txt">>, <<"words.txt", "mixed.txt">>},
        wpp \in 1..3, uw \in BOOLEAN, cm \in {"none", "upper"}}

GenConfigs ==
    PatternConfigs \cup FilterConfigs \cup ComposeConfigs \cup CaseConfigs
        \cup AugmentConfigs \cup SmartConfigs \cup UnsatisfiableConfigs \cup DrawConfigs

(***************************************************************************)
(* GenerateWorker.run, one action per step.                                *)
(***************************************************************************)
\* run, lines 140-143: the words loaded, after the optional removal of duplicates
LoadedWords(cfg, gone) ==
    IF cfg.remove_source_duplicates
    THEN FromKeys(load_words(cfg.wordlists, gone), <<>>)
    ELSE load_words(cfg.wordlists, gone)

(***************************************************************************)
(* GenerateWorker.run, one action per step.  gpc is the position of run:   *)
(* "idle" (no worker), "start" (line 139), "loop" (line 154), "draw" (line *)
(* 161), "smart" (line 203), "filter" (line 209), "written" (line 237),    *)
(* "done" (run has returned), "failed" (the write raised), "pick_word"     *)
(* (run is inside the loop of pick_word, which no draw can leave).         *)
(***************************************************************************)
\* run, lines 145-147: no word was loaded
GenLoadEmpty ==
    /\ gpc = "start"
    /\ LoadedWords(gcfg, removed) = <<>>
    /\ gevents' = Append(gevents, FinishedEvent(<<>>, gcfg.output))
    /\ gpc' = "done"
    /\ UNCHANGED <<gcfg, words_pool, gi, gpwd, results, seen, gwrites>>
    /\ UNCHANGED <<drawvars, fixvars, guivars, removed>>

\* run, lines 149-152
GenLoad ==
    /\ gpc = "start"
    /\ LoadedWords(gcfg, removed) # <<>>
    /\ words_pool' = LoadedWords(gcfg, removed)
    /\ results' = <<>>
    /\ seen' = {}
    /\ gi' = 0
    /\ gpc' = "loop"
    /\ UNCHANGED <<gcfg, gpwd, gevents, gwrites>>
    /\ UNCHANGED <<drawvars, fixvars, guivars, removed>>

\* run, lines 154-156 and 190-201: one pass in pattern mode builds and
\* augments a candidate
GenBuild ==
    /\ gpc = "loop"
    /\ gi < gcfg.count
    /\ gcfg.pattern_mode
    /\ \E p \in Candidates(gcfg, words_pool) : gpwd' = p
    /\ gpc' = "smart"
    /\ UNCHANGED <<gcfg, words_pool, gi, results, seen, gevents, gwrites>>
    /\ UNCHANGED <<drawvars, fixvars, guivars, removed>>

\* run, lines 158-160: one pass in word-composition mode begins
GenCompose ==
    /\ gpc = "loop"
    /\ gi < gcfg.count
    /\ ~gcfg.pattern_mode
    /\ gparts' = <<>>
    /\ gused' = {}
    /\ gdraws' = 0
    /\ gpc' = "draw"
    /\ UNCHANGED <<gcfg, words_pool, gi, gpwd, results, seen, gevents, gwrites, gw>>
    /\ UNCHANGED <<fixvars, guivars, removed>>

\* a pass of the drawing loop in which a draw already used is drawn again in
\* the same pass, until the word is a new one
GenDrawAgain ==
    /\ gpc = "draw"
    /\ gdraws < gcfg.words_per_password
    /\ \E w \in pick_word(gcfg, words_pool) :
            /\ gw' = w
            /\ IF gcfg.unique_words /\ w \in gused
               THEN UNCHANGED <<gparts, gused, gdraws>>
               ELSE /\ gused' = gused \cup {w}
                    /\ gdraws' = gdraws + 1
                    /\ \E w2 \in CaseAndLeet(gcfg, w) : gparts' = Append(gparts, w2)
    /\ UNCHANGED <<gcfg, gpc, words_pool, gi, gpwd, results, seen, gevents, gwrites>>
    /\ UNCHANGED <<fixvars, guivars, removed>>

\* run, lines 161-170: one pass of the drawing loop
GenDraw ==
    /\ gpc = "draw"
    /\ gdraws < gcfg.words_per_password
    /\ \E w \in pick_word(gcfg, words_pool) :
            /\ gw' = w
            /\ IF gcfg.unique_words /\ w \in gused
               THEN UNCHANGED <<gparts, gused>>
               ELSE /\ gused' = gused \cup {w}
                    /\ \E w2 \in CaseAndLeet(gcfg, w) : gparts' = Append(gparts, w2)
    /\ gdraws' = gdraws + 1
    /\ UNCHANGED <<gcfg, gpc, words_pool, gi, gpwd, results, seen, gevents, gwrites>>
    /\ UNCHANGED <<fixvars, guivars, removed>>

\* run, lines 172-201: the drawing loop has ended; the parts are shuffled and
\* joined and the candidate is augmented
GenAssemble ==
    /\ gpc = "draw"
    /\ gdraws >= gcfg.words_per_password
    /\ \E q \in Assemble(gcfg, gparts) : \E p \in Augment(gcfg, q) : gpwd' = p
    /\ gpc' = "smart"
    /\ UNCHANGED <<gcfg, words_pool, gi, results, seen, gevents, gwrites>>
    /\ UNCHANGED <<drawvars, fixvars, guivars, removed>>

\* pick_word, lines 129-130: no word of the pool passes the filter
GenPickWordForever ==
    /\ \/ gpc = "loop" /\ gi < gcfg.count /\ gcfg.pattern_mode /\ DrawsWord(gcfg)
       \/ gpc = "draw" /\ gdraws < gcfg.words_per_password
    /\ pick_word(gcfg, words_pool) = {}
    /\ gpc' = "pick_word"
    /\ UNCHANGED <<gcfg, words_pool, gi, gpwd, results, seen, gevents, gwrites>>
    /\ UNCHANGED <<drawvars, fixvars, guivars, removed>>

\* run, lines 203-207
GenSmart ==
    /\ gpc = "smart"
    /\ \E p \in SmartTopUp(gcfg, gpwd) : gpwd' = p
    /\ gpc' = "filter"
    /\ UNCHANGED <<gcfg, words_pool, gi, results, seen, gevents, gwrites>>
    /\ UNCHANGED <<drawvars, fixvars, guivars, removed>>

\* run, lines 209-210: the candidate is shorter than min_len
GenTooShort ==
    /\ gpc = "filter"
    /\ TruthyInt(gcfg.min_len) /\ Len(gpwd) < gcfg.min_len
    /\ gi' = gi + 1
    /\ gpc' = "loop"
    /\ UNCHANGED <<gcfg, words_pool, gpwd, results, seen, gevents, gwrites>>
    /\ UNCHANGED <<drawvars, fixvars, guivars, removed>>

\* run, lines 212-213: the candidate was emitted before
GenDuplicate ==
    /\ gpc = "filter"
    /\ ~(TruthyInt(gcfg.min_len) /\ Len(gpwd) < gcfg.min_len)
    /\ gcfg.avoid_duplicates /\ gpwd \in seen
    /\ gi' = gi + 1
    /\ gpc' = "loop"
    /\ UNCHANGED <<gcfg, words_pool, gpwd, results, seen, gevents, gwrites>>
    /\ UNCHANGED <<drawvars, fixvars, guivars, removed>>

\* lines 215-218 reached without the test of line 212
GenAcceptUnseen ==
    /\ gpc = "filter"
    /\ ~(TruthyInt(gcfg.min_len) /\ Len(gpwd) < gcfg.min_len)
    /\ seen' = seen \cup {gpwd}
    /\ results' = Append(results, gpwd)
    /\ gevents' = Append(gevents, ProgressEvent(Percent(gi + 1, gcfg.count)))
    /\ gi' = gi + 1
    /\ gpc' = "loop"
    /\ UNCHANGED <<gcfg, words_pool, gpwd, gwrites>>
    /\ UNCHANGED <<drawvars, fixvars, guivars, removed>>

\* run, lines 215-218: the candidate is accepted and progress is emitted
GenAccept ==
    /\ gpc = "filter"
    /\ ~(TruthyInt(gcfg.min_len) /\ Len(gpwd) < gcfg.min_len)
    /\ ~(gcfg.avoid_duplicates /\ gpwd \in seen)
    /\ seen' = seen \cup {gpwd}
    /\ results' = Append(results, gpwd)
    /\ gevents' = Append(gevents, ProgressEvent(Percent(gi + 1, gcfg.count)))
    /\ gi' = gi + 1
    /\ gpc' = "loop"
    /\ UNCHANGED <<gcfg, words_pool, gpwd, gwrites>>
    /\ UNCHANGED <<drawvars, fixvars, guivars, removed>>

\* run, lines 221-235: the results are written to the output file
GenWrite ==
    /\ gpc = "loop"
    /\ gi >= gcfg.count
    /\ gwrites' = Append(gwrites, [path |-> gcfg.output, fmt |-> gcfg.output_format,
                                   text |-> WriteOutput(gcfg.output_format, results)])
    /\ gpc' = "written"
    /\ UNCHANGED <<gcfg, words_pool, gi, gpwd, results, seen, gevents>>
    /\ UNCHANGED <<drawvars, fixvars, guivars, removed>>

\* run, lines 225-234: open or write raises, and run ends with the exception
GenWriteFails ==
    /\ gpc = "loop"
    /\ gi >= gcfg.count
    /\ gpc' = "failed"
    /\ UNCHANGED <<gcfg, words_pool, gi, gpwd, results, seen, gevents, gwrites>>
    /\ UNCHANGED <<drawvars, fixvars, guivars, removed>>

\* run, line 237
GenFinished ==
    /\ gpc = "written"
    /\ gevents' = Append(gevents, FinishedEvent(results, gcfg.output))
    /\ gpc' = "done"
    /\ UNCHANGED <<gcfg, words_pool, gi, gpwd, results, seen, gwrites>>
    /\ UNCHANGED <<drawvars, fixvars, guivars, removed>>

\* the steps of GenerateWorker.run
GenRun ==
    \/ GenLoadEmpty
    \/ GenLoad
    \/ GenBuild
    \/ GenCompose
    \/ GenDraw
    \/ GenAssemble
    \/ GenPickWordForever
    \/ GenSmart
    \/ GenTooShort
    \/ GenDuplicate
    \/ GenAccept
    \/ GenWrite
    \/ GenWriteFails
    \/ GenFinished

(***************************************************************************)
(* The state of the program.                                               *)
(***************************************************************************)
\* no GenerateWorker has been made
GenIdle ==
    /\ gcfg = BaseConfig
    /\ gpc = "idle"
    /\ words_pool = <<>>
    /\ gi = 0
    /\ gpwd = <<>>
    /\ results = <<>>
    /\ seen = {}
    /\ gevents = <<>>
    /\ gwrites = <<>>
    /\ gparts = <<>>
    /\ gused = {}
    /\ gdraws = 0
    /\ gw = <<>>

\* WordToolGUI.__init__, init_generator and init_fixer
GuiInit ==
    /\ gen_btn = TRUE
    /\ fix_btn = TRUE
    /\ gen_progress = 0
    /\ fix_progress = 0
    /\ ghandled = 0
    /\ fhandled = 0
    /\ dialogs = 0
    /\ worker = "none"
    /\ gen_runs = 0
    /\ fix_runs = 0

\* the options of a Fixer form left as they are
FixBaseConfig ==
    [input |-> "abc.txt", output |-> "fixed_wordlist.txt", remove_ambiguous |-> FALSE,
     smart_mode |-> FALSE, min_len |-> 0, remove_duplicates |-> FALSE, max_entropy |-> 0,
     policy_upper |-> TRUE, policy_lower |-> TRUE, policy_number |-> TRUE,
     policy_symbol |-> TRUE, blacklist |-> <<>>, whitelist |-> <<>>, output_format |-> "txt"]

\* no FixWorker has been made
FixIdle ==
    /\ fcfg = FixBaseConfig
    /\ fpc = "idle"
    /\ passwords = <<>>
    /\ fidx = 0
    /\ fixed = <<>>
    /\ fseen = {}
    /\ fevents = <<>>
    /\ fwrites = <<>>

(***************************************************************************)
(* The configurations fix_passwords() can build.                           *)
(***************************************************************************)
\* policy enforcement
FixPolicyConfigs ==
    {[FixBaseConfig EXCEPT !.input = inp, !.remove_ambiguous = ra, !.smart_mode = sm,
                           !.policy_upper = pu, !.policy_lower = pl, !.policy_number = pn,
                           !.policy_symbol = ps] :
        inp \in {"abc.txt", "list.txt"}, ra \in BOOLEAN, sm \in BOOLEAN, pu \in BOOLEAN,
        pl \in BOOLEAN, pn \in BOOLEAN, ps \in BOOLEAN}

\* the rejections
FixFilterConfigs ==
    {[FixBaseConfig EXCEPT !.input = inp, !.remove_ambiguous = ra, !.min_len = ml,
                           !.remove_duplicates = rd, !.max_entropy = me, !.blacklist = bl,
                           !.whitelist = wh, !.output_format = fmt] :
        inp \in {"abc.txt", "list.txt", "blank.txt", "missing.txt"}, ra \in BOOLEAN,
        ml \in {0, 5}, rd \in BOOLEAN, me \in {0, 5, 8},
        bl \in {<<>>, << <<"s", "s">> >>}, wh \in {<<>>, << <<"A">>, <<"x">> >>},
        fmt \in Formats}

FixConfigs == FixPolicyConfigs \cup FixFilterConfigs

(***************************************************************************)
(* FixWorker.run, one action per step.  fpc is the position of run:        *)
(* "idle" (no worker), "start" (line 266), "loop" (line 277), "written"    *)
(* (line 321), "done" (run has returned), "failed" (the write raised).     *)
(***************************************************************************)
\* run without lines 267-269: open raises on the missing file
FixMissingRaises ==
    /\ fpc = "start"
    /\ ~(IsFile(fcfg.input) /\ fcfg.input \notin removed)
    /\ fpc' = "failed"
    /\ UNCHANGED <<fcfg, passwords, fidx, fixed, fseen, fevents, fwrites>>
    /\ UNCHANGED <<genvars, guivars, removed>>

\* run, lines 267-269: the input is not a file
FixMissing ==
    /\ fpc = "start"
    /\ ~(IsFile(fcfg.input) /\ fcfg.input \notin removed)
    /\ fevents' = Append(fevents, FinishedEvent(<<>>, fcfg.output))
    /\ fpc' = "done"
    /\ UNCHANGED <<fcfg, passwords, fidx, fixed, fseen, fwrites>>
    /\ UNCHANGED <<genvars, guivars, removed>>

\* run, lines 271-275
FixLoad ==
    /\ fpc = "start"
    /\ IsFile(fcfg.input) /\ fcfg.input \notin removed
    /\ passwords' = StripNonEmpty(FileLines(fcfg.input))
    /\ fixed' = <<>>
    /\ fseen' = {}
    /\ fidx' = 0
    /\ fpc' = "loop"
    /\ UNCHANGED <<fcfg, fevents, fwrites>>
    /\ UNCHANGED <<genvars, guivars, removed>>

\* run, lines 278-287: the line is dropped by the blacklist or the whitelist
FixListedOut ==
    /\ fpc = "loop"
    /\ fidx < Len(passwords)
    /\ FixListed(fcfg, FixAmbiguous(fcfg, passwords[fidx + 1]))
    /\ fidx' = fidx + 1
    /\ UNCHANGED <<fcfg, fpc, passwords, fixed, fseen, fevents, fwrites>>
    /\ UNCHANGED <<genvars, guivars, removed>>

\* run, lines 278-299: the line is dropped after policy enforcement
FixReject ==
    /\ fpc = "loop"
    /\ fidx < Len(passwords)
    /\ ~FixListed(fcfg, FixAmbiguous(fcfg, passwords[fidx + 1]))
    /\ \E p \in FixPolicy(fcfg, FixAmbiguous(fcfg, passwords[fidx + 1])) :
            FixRejected(fcfg, p, fseen)
    /\ fidx' = fidx + 1
    /\ UNCHANGED <<fcfg, fpc, passwords, fixed, fseen, fevents, fwrites>>
    /\ UNCHANGED <<genvars, guivars, removed>>

\* run, lines 278-303: the line is accepted and progress is emitted
FixAccept ==
    /\ fpc = "loop"
    /\ fidx < Len(passwords)
    /\ ~FixListed(fcfg, FixAmbiguous(fcfg, passwords[fidx + 1]))
    /\ \E p \in FixPolicy(fcfg, FixAmbiguous(fcfg, passwords[fidx + 1])) :
            /\ ~FixRejected(fcfg, p, fseen)
            /\ fseen' = fseen \cup {p}
            /\ fixed' = Append(fixed, p)
    /\ fevents' = Append(fevents, ProgressEvent(Percent(fidx + 1, Len(passwords))))
    /\ fidx' = fidx + 1
    /\ UNCHANGED <<fcfg, fpc, passwords, fwrites>>
    /\ UNCHANGED <<genvars, guivars, removed>>

\* run, lines 305-319: the fixed passwords are written to the output file
FixWrite ==
    /\ fpc = "loop"
    /\ fidx >= Len(passwords)
    /\ fwrites' = Append(fwrites, [path |-> fcfg.output, fmt |-> fcfg.output_format,
                                   text |-> WriteOutput(fcfg.output_format, fixed)])
    /\ fpc' = "written"
    /\ UNCHANGED <<fcfg, passwords, fidx, fixed, fseen, fevents>>
    /\ UNCHANGED <<genvars, guivars, removed>>

\* run, lines 309-318: open or write raises, and run ends with the exception
FixWriteFails ==
    /\ fpc = "loop"
    /\ fidx >= Len(passwords)
    /\ fpc' = "failed"
    /\ UNCHANGED <<fcfg, passwords, fidx, fixed, fseen, fevents, fwrites>>
    /\ UNCHANGED <<genvars, guivars, removed>>

\* run, line 321
FixFinished ==
    /\ fpc = "written"
    /\ fevents' = Append(fevents, FinishedEvent(fixed, fcfg.output))
    /\ fpc' = "done"
    /\ UNCHANGED <<fcfg, passwords, fidx, fixed, fseen, fwrites>>
    /\ UNCHANGED <<genvars, guivars, removed>>

\* the steps of FixWorker.run
FixRun ==
    \/ FixMissing
    \/ FixLoad
    \/ FixListedOut
    \/ FixReject
    \/ FixAccept
    \/ FixWrite
    \/ FixWriteFails
    \/ FixFinished

(***************************************************************************)
(* A Generator run: the state when generate() has started the worker, and  *)
(* the steps of its run.                                                   *)
(***************************************************************************)
Init ==
    /\ gcfg \in GenConfigs
    /\ gpc = "start"
    /\ words_pool = <<>>
    /\ gi = 0
    /\ gpwd = <<>>
    /\ results = <<>>
    /\ seen = {}
    /\ gevents = <<>>
    /\ gwrites = <<>>
    /\ gparts = <<>>
    /\ gused = {}
    /\ gdraws = 0
    /\ gw = <<>>
    /\ FixIdle
    /\ gen_btn = FALSE
    /\ fix_btn = TRUE
    /\ gen_progress = 0
    /\ fix_progress = 0
    /\ ghandled = 0
    /\ fhandled = 0
    /\ dialogs = 0
    /\ worker = "gen"
    /\ gen_runs = 1
    /\ fix_runs = 0
    /\ removed = {}

Next == GenRun

Spec == Init /\ [][Next]_vars

(***************************************************************************)
(* A Fixer run: the state when fix_passwords() has started the worker (or  *)
(* another caller has, the input file not being checked), and the steps of *)
(* its run.                                                                *)
(***************************************************************************)
InitFix ==
    /\ fcfg \in FixConfigs
    /\ fpc = "start"
    /\ passwords = <<>>
    /\ fidx = 0
    /\ fixed = <<>>
    /\ fseen = {}
    /\ fevents = <<>>
    /\ fwrites = <<>>
    /\ GenIdle
    /\ gen_btn = TRUE
    /\ fix_btn = FALSE
    /\ gen_progress = 0
    /\ fix_progress = 0
    /\ ghandled = 0
    /\ fhandled = 0
    /\ dialogs = 0
    /\ worker = "fix"
    /\ gen_runs = 0
    /\ fix_runs = 1
    /\ removed = {}

NextFix == FixRun

SpecFix == InitFix /\ [][NextFix]_vars

(***************************************************************************)
(* WordToolGUI: the session.  A form is the configuration the widgets      *)
(* hold when the button is clicked (wordlists: the entry's text split at   *)
(* commas, stripped, without the empty pieces).  A disabled button emits   *)
(* no clicked signal, and neither button can be clicked while a message    *)
(* box is open (exec_ and QMessageBox.warning are modal).  The signals of  *)
(* a worker reach the GUI thread in the order of their emission.           *)
(***************************************************************************)
GenForms ==
    {[BaseConfig EXCEPT !.pattern_mode = pm, !.pattern = <<"W", "-", "W">>,
                        !.wordlists = wl, !.count = MaxRandCount, !.avoid_duplicates = ad,
                        !.min_len = ml, !.min_word_len = mw, !.output = out] :
        wl \in {<<>>, <<"test.txt">>, <<"missing.txt">>}, ad \in BOOLEAN, ml \in {0, 9},
        mw \in {0, 5}, out \in {"", "generated_wordlist.txt"}, pm \in BOOLEAN}

FixForms ==
    {[FixBaseConfig EXCEPT !.input = inp, !.output = out, !.remove_duplicates = rd,
                           !.blacklist = bl] :
        inp \in {"", "abc.txt", "list.txt", "missing.txt"}, out \in {"", "fixed_wordlist.txt"},
        rd \in BOOLEAN, bl \in {<<>>, << <<"s", "s">> >>}}

\* the files another program may delete while this one runs
Removable == {"abc.txt", "test.txt"}

\* generate, lines 604-612: the form is refused with a warning
generate_warning(form) ==
    /\ gen_btn /\ dialogs = 0
    /\ form.wordlists = <<>> \/ form.output = ""
    /\ dialogs' = dialogs + 1
    /\ UNCHANGED <<gen_btn, fix_btn, gen_progress, fix_progress, ghandled, fhandled,
                   worker, gen_runs, fix_runs>>
    /\ UNCHANGED <<genvars, fixvars, removed>>

\* generate without line 650: the button stays enabled
generate_enabled(form) ==
    /\ gen_btn /\ dialogs = 0
    /\ form.wordlists # <<>> /\ form.output # ""
    /\ gen_progress' = 0
    /\ worker' = "gen"
    /\ gcfg' = form
    /\ gpc' = "start"
    /\ words_pool' = <<>>
    /\ gi' = 0
    /\ gpwd' = <<>>
    /\ results' = <<>>
    /\ seen' = {}
    /\ gevents' = <<>>
    /\ gwrites' = <<>>
    /\ gparts' = <<>>
    /\ gused' = {}
    /\ gdraws' = 0
    /\ gw' = <<>>
    /\ ghandled' = 0
    /\ gen_runs' = gen_runs + 1
    /\ UNCHANGED <<gen_btn, fix_btn, fix_progress, fhandled, dialogs, fix_runs>>
    /\ UNCHANGED <<fixvars, removed>>

\* generate, lines 614-657: the button is disabled and a GenerateWorker started
generate(form) ==
    /\ gen_btn /\ dialogs = 0
    /\ form.wordlists # <<>> /\ form.output # ""
    /\ gen_btn' = FALSE
    /\ gen_progress' = 0
    /\ worker' = "gen"
    /\ gcfg' = form
    /\ gpc' = "start"
    /\ words_pool' = <<>>
    /\ gi' = 0
    /\ gpwd' = <<>>
    /\ results' = <<>>
    /\ seen' = {}
    /\ gevents' = <<>>
    /\ gwrites' = <<>>
    /\ gparts' = <<>>
    /\ gused' = {}
    /\ gdraws' = 0
    /\ gw' = <<>>
    /\ ghandled' = 0
    /\ gen_runs' = gen_runs + 1
    /\ UNCHANGED <<fix_btn, fix_progress, fhandled, dialogs, fix_runs>>
    /\ UNCHANGED <<fixvars, removed>>

\* generate, line 655: gen_progress.setValue on a progress signal
gen_progress_setValue ==
    /\ ghandled < Len(gevents)
    /\ gevents[ghandled + 1].type = "progress"
    /\ gen_progress' = gevents[ghandled + 1].pct
    /\ ghandled' = ghandled + 1
    /\ UNCHANGED <<gen_btn, fix_btn, fix_progress, fhandled, dialogs, worker, gen_runs, fix_runs>>
    /\ UNCHANGED <<genvars, fixvars, removed>>

\* on_generate_finished, up to the opening of the message box
on_generate_finished ==
    /\ ghandled < Len(gevents)
    /\ gevents[ghandled + 1].type = "finished"
    /\ gen_btn' = TRUE
    /\ gen_progress' = 100
    /\ dialogs' = dialogs + 1
    /\ ghandled' = ghandled + 1
    /\ gen_runs' = gen_runs - 1
    /\ UNCHANGED <<fix_btn, fix_progress, fhandled, worker, fix_runs>>
    /\ UNCHANGED <<genvars, fixvars, removed>>

\* fix_passwords, lines 673-680: the form is refused with a warning
fix_warning(form) ==
    /\ fix_btn /\ dialogs = 0
    /\ \/ form.input = ""
       \/ ~(IsFile(form.input) /\ form.input \notin removed)
       \/ form.output = ""
    /\ dialogs' = dialogs + 1
    /\ UNCHANGED <<gen_btn, fix_btn, gen_progress, fix_progress, ghandled, fhandled,
                   worker, gen_runs, fix_runs>>
    /\ UNCHANGED <<genvars, fixvars, removed>>

\* fix_passwords, lines 682-706: the button is disabled and a FixWorker started
fix_passwords(form) ==
    /\ fix_btn /\ dialogs = 0
    /\ form.input # ""
    /\ IsFile(form.input) /\ form.input \notin removed
    /\ form.output # ""
    /\ fix_btn' = FALSE
    /\ fix_progress' = 0
    /\ worker' = "fix"
    /\ fcfg' = form
    /\ fpc' = "start"
    /\ passwords' = <<>>
    /\ fidx' = 0
    /\ fixed' = <<>>
    /\ fseen' = {}
    /\ fevents' = <<>>
    /\ fwrites' = <<>>
    /\ fhandled' = 0
    /\ fix_runs' = fix_runs + 1
    /\ UNCHANGED <<gen_btn, gen_progress, ghandled, dialogs, gen_runs>>
    /\ UNCHANGED <<genvars, removed>>

\* fix_passwords, line 704: fix_progress.setValue on a progress signal
fix_progress_setValue ==
    /\ fhandled < Len(fevents)
    /\ fevents[fhandled + 1].type = "progress"
    /\ fix_progress' = fevents[fhandled + 1].pct
    /\ fhandled' = fhandled + 1
    /\ UNCHANGED <<gen_btn, fix_btn, gen_progress, ghandled, dialogs, worker, gen_runs, fix_runs>>
    /\ UNCHANGED <<genvars, fixvars, removed>>

\* on_fix_finished, up to the opening of the message box
on_fix_finished ==
    /\ fhandled < Len(fevents)
    /\ fevents[fhandled + 1].type = "finished"
    /\ fix_btn' = TRUE
    /\ fix_progress' = 100
    /\ dialogs' = dialogs + 1
    /\ fhandled' = fhandled + 1
    /\ fix_runs' = fix_runs - 1
    /\ UNCHANGED <<gen_btn, gen_progress, ghandled, worker, gen_runs>>
    /\ UNCHANGED <<genvars, fixvars, removed>>

\* the user closes the message box on top
close_message_box ==
    /\ dialogs > 0
    /\ dialogs' = dialogs - 1
    /\ UNCHANGED <<gen_btn, fix_btn, gen_progress, fix_progress, ghandled, fhandled,
                   worker, gen_runs, fix_runs>>
    /\ UNCHANGED <<genvars, fixvars, removed>>

\* another program deletes a file
file_removed(path) ==
    /\ path \notin removed
    /\ removed' = removed \cup {path}
    /\ UNCHANGED <<genvars, fixvars, guivars>>

InitGUI == GenIdle /\ FixIdle /\ GuiInit /\ removed = {}

NextGUI ==
    \/ \E form \in GenForms : generate_warning(form)
    \/ \E form \in GenForms : generate(form)
    \/ gen_progress_setValue
    \/ on_generate_finished
    \/ \E form \in FixForms : fix_warning(form)
    \/ \E form \in FixForms : fix_passwords(form)
    \/ fix_progress_setValue
    \/ on_fix_finished
    \/ close_message_box
    \/ \E path \in Removable : file_removed(path)
    \/ GenRun
    \/ FixRun

SpecGUI == InitGUI /\ [][NextGUI]_vars

(***************************************************************************)
(* Properties.                                                             *)
(***************************************************************************)
w_test == <<"t", "e", "s", "t">>

\* every augmentation and filter of the Generator is off
PlainConfig(cfg) ==
    /\ ~cfg.use_symbols /\ ~cfg.use_numbers /\ cfg.prefix = <<>> /\ cfg.suffix = <<>>
    /\ ~cfg.exclude_ambiguous /\ ~cfg.smart_mode /\ cfg.min_len = 0 /\ ~cfg.avoid_duplicates

\* the run of the first claim: the one-word pool, the pattern W-W, count 5
PatternRun ==
    /\ gcfg.pattern_mode /\ gcfg.pattern = <<"W", "-", "W">> /\ gcfg.wordlists = <<"test.txt">>
    /\ gcfg.count = 5 /\ PlainConfig(gcfg)
    /\ gpc \in {"written", "done"}

\* C1 as stated: the run of the pattern W-W over the pool ["test"] with count 5
\* and every option off ends with five times "test-test"
C1_FiveTimesTestDashTest ==
    PatternRun => results = [k \in 1..5 |-> w_test \o <<"-">> \o w_test]

\* C1, amended: the dashes of the pattern only separate its tokens, and the
\* run ends with five times "testtest"
C1_FiveTimesTestTest ==
    PatternRun => results = [k \in 1..5 |-> w_test \o w_test]

C1_Witness == PatternRun /\ gpc = "done" /\ Len(results) = 5

\* the strings sep.join(parts) can give for the parts the drawing loop can leave
SeparatorJoined(cfg, pool) ==
    UNION {{Join(sep_char(cfg), parts) :
                parts \in (IF cfg.shuffle_words THEN Shuffles(drawn) ELSE {drawn})} :
            drawn \in DrawLoop(cfg, pool, 1, {}, <<>>)}

\* C2: in word-composition mode with insert_between "none" the candidate is its
\* words joined with the character of the configured separator
C2_SeparatorJoin ==
    (/\ gpc = "smart"
     /\ ~gcfg.pattern_mode /\ gcfg.insert_between = "none" /\ PlainConfig(gcfg))
        => gpwd \in SeparatorJoined(gcfg, words_pool)

\* the progress events among the signals of a worker
ProgressOf(events) == SelectSeq(events, LAMBDA e : e.type = "progress")

\* C3: every pass of the loop emits a progress event, the k-th being the
\* percentage of k out of count, so a run with count >= 1 that reaches the
\* writer has emitted count of them, the last being 100
C3_ProgressEveryPass ==
    /\ gpc = "loop" => Len(ProgressOf(gevents)) = gi
    /\ \A k \in 1..Len(ProgressOf(gevents)) :
            ProgressOf(gevents)[k].pct = Percent(k, gcfg.count)
    /\ (gpc \in {"written", "done"} /\ gcfg.count >= 1 /\ words_pool # <<>>)
            => /\ Len(ProgressOf(gevents)) = gcfg.count
               /\ ProgressOf(gevents)[gcfg.count].pct = 100

\* the completion events among the signals of a worker
FinishedOf(events) == SelectSeq(events, LAMBDA e : e.type = "finished")

\* the completion event of a run is emitted at most once, is its last signal,
\* follows one write of the emitted sequence to the emitted path, and has been
\* emitted when run has returned
CompletionAfterWrite(pc, events, writes, fmt) ==
    /\ Len(FinishedOf(events)) <= 1
    /\ pc = "done" => Len(FinishedOf(events)) = 1
    /\ Len(FinishedOf(events)) = 1 =>
            /\ events[Len(events)].type = "finished"
            /\ Len(writes) = 1
            /\ writes[1].path = events[Len(events)].out
            /\ writes[1].text = WriteOutput(fmt, events[Len(events)].res)

\* C4: in a Generator or Fixer run the completion event is emitted once, last,
\* and only after the writer has written the accepted sequence to the path
C4_CompletionAfterWrite ==
    /\ CompletionAfterWrite(gpc, gevents, gwrites, gcfg.output_format)
    /\ CompletionAfterWrite(fpc, fevents, fwrites, fcfg.output_format)

\* the candidates a pass can hand to the filters
FinalCandidates(cfg, pool) == UNION {SmartTopUp(cfg, p) : p \in Candidates(cfg, pool)}

\* the run has ended, under avoid_duplicates and a count >= 1, and every pass
\* could only produce one and the same candidate
SameCandidateRun ==
    /\ gcfg.avoid_duplicates /\ gcfg.count >= 1
    /\ gpc \in {"written", "done"}
    /\ Cardinality(FinalCandidates(gcfg, words_pool)) = 1

NoDuplicates ==
    (gcfg.avoid_duplicates /\ gpc \notin {"idle", "start"}) =>
        /\ \A a, b \in 1..Len(results) : a # b => results[a] # results[b]
        /\ Range(results) = seen

\* C5 as stated: with avoid_duplicates the results hold no string twice, and a
\* run whose passes all produce the same candidate ends with one result
C5_OneResult ==
    /\ NoDuplicates
    /\ SameCandidateRun => Len(results) = 1

\* C5, amended: ... ends with one result when that candidate is not shorter
\* than min_len, and with none when it is
C5_OneResultIfLongEnough ==
    /\ NoDuplicates
    /\ SameCandidateRun =>
            \A c \in FinalCandidates(gcfg, words_pool) :
                Len(results) = (IF TruthyInt(gcfg.min_len) /\ Len(c) < gcfg.min_len THEN 0 ELSE 1)

C5_Witness ==
    /\ SameCandidateRun /\ gpc = "done" /\ gcfg.count >= 2 /\ gcfg.min_len = 0
    /\ results = <<w_test \o w_test>>

\* the classes (digit, symbol) of which s holds no character
MissingClasses(s) ==
    (IF Search("digit", s) THEN 0 ELSE 1) + (IF Search("symbol", s) THEN 0 ELSE 1)

\* C6: under smart_mode the top-up appends one digit when the candidate holds
\* none and one symbol when it holds none, whatever num_type, num_len, num_max
\* and sym_count are: afterwards the candidate holds both and has grown by the
\* number of classes that were missing
C6_SmartTopUp ==
    [][(gpc = "smart" /\ gpc' = "filter" /\ gcfg.smart_mode) =>
            /\ Search("digit", gpwd')
            /\ Search("symbol", gpwd')
            /\ Len(gpwd') = Len(gpwd) + MissingClasses(gpwd)
            /\ SubSeq(gpwd', 1, Len(gpwd)) = gpwd]_vars

\* the run of the seventh claim: the line "abc" under all four policy flags
PolicyRun ==
    /\ fcfg.input = "abc.txt" /\ fcfg.smart_mode
    /\ fcfg.policy_upper /\ fcfg.policy_lower /\ fcfg.policy_number /\ fcfg.policy_symbol
    /\ fcfg.min_len = 0 /\ fcfg.max_entropy = 0 /\ fcfg.blacklist = <<>> /\ fcfg.whitelist = <<>>
    /\ fpc \in {"loop", "written", "done"} /\ fidx = 1

PolicyToppedUp(n) ==
    /\ Len(fixed) = 1
    /\ n <= Len(fixed[1])
    /\ SubSeq(fixed[1], 1, 3) = <<"a", "b", "c">>
    /\ Search("upper", fixed[1]) /\ Search("lower", fixed[1])
    /\ Search("digit", fixed[1]) /\ Search("symbol", fixed[1])

\* C7 as stated: "abc" under all four policy flags is accepted with "abc" as a
\* prefix, a character of each class and a length of at least 7
C7_AtLeastSeven == PolicyRun => PolicyToppedUp(7)

\* C7, amended: ... and a length of exactly 6 ("abc" holds a lowercase letter,
\* so three characters are appended)
C7_ExactlySix == PolicyRun => (PolicyToppedUp(6) /\ Len(fixed[1]) = 6)

C7_Witness == PolicyRun /\ fpc = "done" /\ Len(fixed) = 1 /\ ~fcfg.remove_ambiguous

\* C8: a Generator run that loads no word, and a Fixer run whose input is not
\* a file, leave LOADING for the end of run at once: the completion event with
\* the empty sequence and the configured output path is their only signal, the
\* loop is not entered and no error is raised
C8_EmptySourceEndsSoftly ==
    [][/\ (gpc = "start" /\ gpc' # "start" /\ LoadedWords(gcfg, removed) = <<>>) =>
            /\ gpc' = "done"
            /\ gevents' = <<FinishedEvent(<<>>, gcfg.output)>>
            /\ results' = <<>> /\ gi' = 0 /\ gwrites' = <<>>
       /\ (fpc = "start" /\ fpc' # "start" /\ ~(IsFile(fcfg.input) /\ fcfg.input \notin removed)) =>
            /\ fpc' = "done"
            /\ fevents' = <<FinishedEvent(<<>>, fcfg.output)>>
            /\ fixed' = <<>> /\ fidx' = 0 /\ fwrites' = <<>>]_vars

C8_Witness ==
    /\ gpc = "done" /\ words_pool = <<>> /\ gcfg.wordlists = <<"missing.txt">>
    /\ gevents = <<FinishedEvent(<<>>, "generated_wordlist.txt")>>
    /\ fpc = "done" /\ fcfg.input \in removed
    /\ fevents = <<FinishedEvent(<<>>, "fixed_wordlist.txt")>>

\* a run is in flight from the start of its worker until its completion event
\* has been handled
InFlight(pc, events, handled) ==
    pc # "idle" /\ ~(pc = "done" /\ handled = Len(events))

\* C9: at most one Generator run and at most one Fixer run is in flight, and
\* the button of a kind is disabled while a run of the kind is
C9_OneRunOfEachKind ==
    /\ gen_runs = (IF InFlight(gpc, gevents, ghandled) THEN 1 ELSE 0)
    /\ fix_runs = (IF InFlight(fpc, fevents, fhandled) THEN 1 ELSE 0)
    /\ InFlight(gpc, gevents, ghandled) => ~gen_btn
    /\ InFlight(fpc, fevents, fhandled) => ~fix_btn

C9_Witness ==
    /\ InFlight(gpc, gevents, ghandled) /\ gpc = "loop" /\ gi = 1
    /\ InFlight(fpc, fevents, fhandled) /\ fpc = "loop" /\ fidx = 1
    /\ dialogs = 0 /\ ~gen_btn /\ ~fix_btn

\* the run of the tenth claim: list.txt, whose first line is "p0a1ssI", with
\* the removal of ambiguous characters as the only option
AmbiguousRun ==
    /\ fcfg.input = "list.txt" /\ fcfg.remove_ambiguous /\ ~fcfg.smart_mode
    /\ fcfg.min_len = 0 /\ fcfg.max_entropy = 0 /\ ~fcfg.remove_duplicates
    /\ fcfg.blacklist = <<>> /\ fcfg.whitelist = <<>>
    /\ fpc \in {"loop", "written", "done"} /\ fidx >= 1

\* every line so far is kept, less its characters 0, O, 1, l and I
AmbiguousDeleted ==
    /\ Len(fixed) = fidx
    /\ \A k \in 1..fidx :
            fixed[k] = SelectSeq(passwords[k], LAMBDA c : c \notin {"0", "O", "1", "l", "I"})

\* C10 as stated: the removal of ambiguous characters turns "p0a1ssI" into "passs"
C10_Passs ==
    AmbiguousRun =>
        /\ passwords[1] = <<"p", "0", "a", "1", "s", "s", "I">>
        /\ fixed[1] = <<"p", "a", "s", "s", "s">>
        /\ AmbiguousDeleted

\* C10, amended: ... into "pass"
C10_Pass ==
    AmbiguousRun =>
        /\ passwords[1] = <<"p", "0", "a", "1", "s", "s", "I">>
        /\ fixed[1] = <<"p", "a", "s", "s">>
        /\ AmbiguousDeleted

C10_Witness == AmbiguousRun /\ fpc = "done" /\ Len(fixed) = 3

(***************************************************************************)
(* C11: a filter no word of a non-empty pool passes.                       *)
(***************************************************************************)
\* run has loaded a non-empty pool of which no word passes apply_filters, and
\* every pass of its loop draws a word
UnsatisfiableRun ==
    /\ gpc \notin {"idle", "start"}
    /\ words_pool # <<>>
    /\ \A k \in 1..Len(words_pool) : ~apply_filters(gcfg, words_pool[k])
    /\ DrawsWord(gcfg)
    /\ gcfg.count >= 1

\* C11: in a Generator run with a non-empty pool of which no word passes the
\* word filter, and a candidate construction that draws a word (count >= 1),
\* run gets past the empty-pool check but never leaves its first pass: it is at
\* the head of one of its loops or inside pick_word, no candidate is ever built, nothing
\* is written, run never returns and no completion event is emitted.
C11_UnsatisfiableFilterNeverEnds ==
    UnsatisfiableRun =>
        /\ gpc \in {"loop", "draw", "pick_word"}
        /\ gi = 0
        /\ results = <<>>
        /\ gwrites = <<>>
        /\ \A k \in 1..Len(gevents) : gevents[k].type # "finished"

\* run is inside pick_word, in word-composition mode, with a pool that is not empty
C11_Witness ==
    /\ UnsatisfiableRun
    /\ gpc = "pick_word"
    /\ ~gcfg.pattern_mode

(***************************************************************************)
(* C12: the drawing loop of word composition.                              *)
(***************************************************************************)
\* C12: in word-composition mode every pass of the drawing loop makes one draw
\* from the pool, and the loop ends after words_per_password of them.  Under
\* unique_words a draw of a word already used in this candidate changes neither
\* parts nor used and is not replaced; any other draw appends the cased word to
\* parts and adds the drawn word to used.  So the parts fall behind the draws
\* by one at every collision and never catch up, and the loop ends with at
\* least 1 and at most words_per_password parts, under unique_words as many as
\* there are distinct words used, and otherwise words_per_password.
C12_DrawingLoop ==
    [][/\ (gpc = "draw" /\ gpc' = "draw") =>
            /\ gdraws' = gdraws + 1
            /\ gdraws' <= gcfg.words_per_password
            /\ gw' \in Range(words_pool)
            /\ IF gcfg.unique_words /\ gw' \in gused
               THEN /\ gparts' = gparts
                    /\ gused' = gused
                    /\ Len(gparts') < gdraws'
               ELSE /\ Len(gparts') = Len(gparts) + 1
                    /\ SubSeq(gparts', 1, Len(gparts)) = gparts
                    /\ gparts'[Len(gparts')] \in CaseAndLeet(gcfg, gw')
                    /\ gused' = gused \cup {gw'}
            /\ gdraws' - Len(gparts') >= gdraws - Len(gparts)
       /\ (gpc = "draw" /\ gpc' = "smart") =>
            /\ gdraws = gcfg.words_per_password
            /\ Len(gparts) >= 1
            /\ Len(gparts) <= gcfg.words_per_password
            /\ gused \subseteq Range(words_pool)
            /\ gcfg.unique_words => Len(gparts) = Cardinality(gused)
            /\ ~gcfg.unique_words => Len(gparts) = gcfg.words_per_password]_vars

\* a candidate of three draws built from two distinct words after one collision
C12_Witness ==
    /\ gpc = "smart"
    /\ ~gcfg.pattern_mode /\ gcfg.unique_words
    /\ gcfg.words_per_password = 3 /\ gdraws = 3
    /\ Len(gparts) = 2 /\ Cardinality(gused) = 2

(***************************************************************************)
(* C13: the order of the shared augmentation.                              *)
(***************************************************************************)
\* base followed by one symbol block if use_symbols, then by one numeric block
\* if use_numbers, wrapped in prefix and suffix, and then stripped of the
\* ambiguous characters if exclude_ambiguous
BlocksWrapStrip(cfg, base) ==
    {LET wrapped == cfg.prefix \o base \o s \o n \o cfg.suffix
     IN  IF cfg.exclude_ambiguous THEN remove_ambiguous(wrapped) ELSE wrapped :
        s \in (IF cfg.use_symbols THEN rand_sym(cfg) ELSE {<<>>}),
        n \in (IF cfg.use_numbers THEN rand_num(cfg) ELSE {<<>>})}

\* pwd followed by what rand_num gives if smart_mode and pwd holds no digit,
\* then by what rand_sym gives if smart_mode and pwd holds no symbol
ToppedUpLast(cfg, pwd) ==
    {pwd \o n \o s :
        n \in (IF cfg.smart_mode /\ ~Search("digit", pwd) THEN rand_num(cfg) ELSE {<<>>}),
        s \in (IF cfg.smart_mode /\ ~Search("symbol", pwd) THEN rand_sym(cfg) ELSE {<<>>})}

\* C13: in both modes the candidate that reaches the smart-mode top-up is the
\* built string followed by the symbol block, then by the numeric block (once
\* when use_numbers is true, whatever numbers_at_end is, and not at all when it
\* is false), then wrapped in prefix and suffix, then stripped of the ambiguous
\* characters; the top-up comes last and only appends to that string.
C13_AugmentationOrder ==
    [][/\ (gpc = "loop" /\ gpc' = "smart") =>
            gpwd' \in UNION {BlocksWrapStrip(gcfg, b) : b \in build_from_pattern(gcfg, words_pool)}
       /\ (gpc = "draw" /\ gpc' = "smart") =>
            gpwd' \in UNION {BlocksWrapStrip(gcfg, b) : b \in Assemble(gcfg, gparts)}
       /\ (gpc = "smart" /\ gpc' = "filter") =>
            gpwd' \in ToppedUpLast(gcfg, gpwd)]_vars

\* word composition under all five augmentations: the numeric block and the
\* digit of the suffix were stripped, and the digit of the top-up, appended
\* after the strip, is the last character of the candidate
C13_Witness ==
    /\ gpc = "filter"
    /\ ~gcfg.pattern_mode
    /\ gcfg.use_symbols /\ gcfg.use_numbers /\ ~gcfg.numbers_at_end
    /\ gcfg.prefix = <<"I">> /\ gcfg.suffix = <<"0", "k">>
    /\ gcfg.exclude_ambiguous /\ gcfg.smart_mode
    /\ Len(gpwd) = Len(w_test) + Len(w_test) + 3
    /\ SubSeq(gpwd, 1, Len(w_test) + Len(w_test)) = w_test \o w_test
    /\ IsPolicySymbol(gpwd[Len(gpwd) - 2])
    /\ gpwd[Len(gpwd) - 1] = "k"
    /\ gpwd[Len(gpwd)] = "0"

(***************************************************************************)
(* C14: ambiguous characters in the accepted strings.                      *)
(***************************************************************************)
\* s holds one of the characters of AMBIGUOUS
HoldsAmbiguous(s) == \E k \in 1..Len(s) : s[k] \in Range(AMBIGUOUS)

\* C14: with exclude_ambiguous enabled in the Generator, and with
\* remove_ambiguous enabled in the Fixer, no accepted string holds any of the
\* characters 0, O, 1, l, I, whatever the other options are
C14_NoAmbiguousAccepted ==
    /\ gcfg.exclude_ambiguous => \A k \in 1..Len(results) : ~HoldsAmbiguous(results[k])
    /\ fcfg.remove_ambiguous => \A k \in 1..Len(fixed) : ~HoldsAmbiguous(fixed[k])

====
